---- MODULE Spec2Model ----
(***************************************************************************)
(* Model of fhirstarter/routing.py: the FHIR interaction classifier.       *)
(*                                                                         *)
(* A path is a sequence of character codes.  The module-level regular      *)
(* expressions of routing.py are kept as data (sequences of pattern        *)
(* elements) and matched by a backtracking matcher with the semantics of   *)
(* Python's re.match: anchored at the start, lazy ".*?", greedy character  *)
(* class repetitions, "$" at the end of the string.                        *)
(*                                                                         *)
(* request.url.path is produced by urllib.parse.urlsplit, which removes    *)
(* tab, carriage return and line feed from the URL, so no path holds a     *)
(* line feed; the alphabet of the model has none.                          *)
(***************************************************************************)
EXTENDS Integers, Sequences, FiniteSets, TLC

(***************************************************************************)
(* Optional values: None is the empty set, Some(x) the singleton.          *)
(***************************************************************************)
None == {}
Some(x) == {x}
Get(o) == CHOOSE x \in o : TRUE

(***************************************************************************)
(* Characters and strings.                                                 *)
(***************************************************************************)
Ord ==
  ("/" :> 47) @@ ("-" :> 45) @@ ("." :> 46) @@ ("1" :> 49) @@ ("~" :> 126) @@
  ("_" :> 95) @@ ("F" :> 70) @@ ("P" :> 80) @@ ("a" :> 97) @@ ("c" :> 99) @@
  ("d" :> 100) @@ ("e" :> 101) @@ ("h" :> 104) @@ ("i" :> 105) @@
  ("k" :> 107) @@ ("m" :> 109) @@ ("n" :> 110) @@ ("o" :> 111) @@
  ("r" :> 114) @@ ("s" :> 115) @@ ("t" :> 116) @@ ("y" :> 121)

Str(cs) == [i \in 1..Len(cs) |-> Ord[cs[i]]]

Repeat(c, n) == [i \in 1..n |-> Ord[c]]

\* "." of a regular expression: any character except a line feed
AnyChar == (0..127) \ {10}
\* [A-z]: the code points from "A" to "z", which include [ \ ] ^ _ `
AzRange == 65..122
\* [A-Za-z0-9\-\.]
IdChars == (65..90) \cup (97..122) \cup (48..57) \cup {45, 46}

(***************************************************************************)
(* Pattern elements of the regular expressions used by routing.py.         *)
(***************************************************************************)
LazyAny == [kind |-> "lazy_any", lit |-> <<>>, set |-> AnyChar, min |-> 0, max |-> -1, name |-> ""]
Lit(cs) == [kind |-> "lit", lit |-> Str(cs), set |-> {}, min |-> 0, max |-> 0, name |-> ""]
\* (?P<name>[set]*)
GroupStar(n, S) == [kind |-> "group", lit |-> <<>>, set |-> S, min |-> 0, max |-> -1, name |-> n]
\* (?P<name>[set]{lo,hi})
GroupRange(n, S, lo, hi) == [kind |-> "group", lit |-> <<>>, set |-> S, min |-> lo, max |-> hi, name |-> n]
End == [kind |-> "end", lit |-> <<>>, set |-> {}, min |-> 0, max |-> 0, name |-> ""]

HasLit(s, pos, lit) ==
  /\ pos + Len(lit) - 1 <= Len(s)
  /\ \A i \in 1..Len(lit) : s[pos + i - 1] = lit[i]

(***************************************************************************)
(* re.match semantics: MatchFrom(pat, k, s, pos) matches the elements      *)
(* k.. of pat against s from position pos and returns the groupdict of the *)
(* first match in the order a backtracking matcher tries them, or None.    *)
(***************************************************************************)
RECURSIVE MatchFrom(_, _, _, _)

Min(S) == CHOOSE i \in S : \A j \in S : i <= j
Max(S) == CHOOSE i \in S : \A j \in S : j <= i

\* number of consecutive characters of s from pos on that are in S, at most
\* cap of them (cap = -1: no limit)
Run(s, pos, S, cap) ==
  LET last == IF cap = -1 \/ pos + cap - 1 > Len(s) THEN Len(s) ELSE pos + cap - 1
      bad == {i \in pos..last : s[i] \notin S}
  IN IF bad = {} THEN last - pos + 1 ELSE Min(bad) - pos

\* the numbers of characters, among lo..hi, that the repetition pat[k] may
\* take at pos for the rest of the pattern to match (the rest is tried only
\* where the first character of a literal that follows, or the end of the
\* string that follows, is found)
Takes(pat, k, s, pos, lo, hi) ==
  LET kind == IF k < Len(pat) THEN pat[k + 1].kind ELSE "none"
      c == pat[k + 1].lit[1]
      n == Len(s)
  IN CASE kind = "lit" ->
            {j \in lo..hi : /\ pos + j <= n
                            /\ s[pos + j] = c
                            /\ MatchFrom(pat, k + 1, s, pos + j) # None}
       [] kind = "end" ->
            {j \in lo..hi : /\ pos + j >= n
                            /\ MatchFrom(pat, k + 1, s, pos + j) # None}
       [] OTHER ->
            {j \in lo..hi : MatchFrom(pat, k + 1, s, pos + j) # None}

\* lazy repetition: the fewest characters for which the rest matches
TryLazy(pat, k, s, pos) ==
  LET ok == Takes(pat, k, s, pos, pat[k].min, Run(s, pos, pat[k].set, pat[k].max))
  IN IF ok = {} THEN None ELSE MatchFrom(pat, k + 1, s, pos + Min(ok))

\* greedy repetition with a capture: the most characters for which the rest
\* matches
TryGreedy(pat, k, s, pos) ==
  LET ok == Takes(pat, k, s, pos, pat[k].min, Run(s, pos, pat[k].set, pat[k].max))
  IN IF ok = {} THEN None
     ELSE LET j == Max(ok)
          IN Some((pat[k].name :> SubSeq(s, pos, pos + j - 1))
                    @@ Get(MatchFrom(pat, k + 1, s, pos + j)))

MatchFrom(pat, k, s, pos) ==
  IF k > Len(pat) THEN Some(<<>>)
  ELSE LET e == pat[k] IN
    CASE e.kind = "lit" ->
           IF HasLit(s, pos, e.lit)
           THEN MatchFrom(pat, k + 1, s, pos + Len(e.lit)) ELSE None
      [] e.kind = "end" ->
           IF pos = Len(s) + 1 \/ (pos = Len(s) /\ s[pos] = 10)
           THEN MatchFrom(pat, k + 1, s, pos) ELSE None
      [] e.kind = "lazy_any" -> TryLazy(pat, k, s, pos)
      [] e.kind = "group" -> TryGreedy(pat, k, s, pos)

\* pattern.match(path)
ReMatch(pat, s) == MatchFrom(pat, 1, s, 1)

\* match.groupdict().get(name)
GroupGet(g, n) == IF n \in DOMAIN g THEN Some(g[n]) ELSE None

(***************************************************************************)
(* The compiled patterns.                                                  *)
(***************************************************************************)
_METADATA_PATH_REGEX ==
  << LazyAny, Lit(<<"/", "m", "e", "t", "a", "d", "a", "t", "a">>) >>

\* mutant: the pattern anchored at the root of the path (no leading ".*?")
_READ_PATH_REGEX_Rooted ==
  << Lit(<<"/">>), GroupStar("resource_type", AzRange),
     Lit(<<"/">>), GroupRange("resource_id", IdChars, 1, 64), End >>

_READ_PATH_REGEX ==
  << LazyAny, Lit(<<"/">>), GroupStar("resource_type", AzRange),
     Lit(<<"/">>), GroupRange("resource_id", IdChars, 1, 64), End >>

\* mutant: resource ids of at most 63 characters
_VREAD_PATH_REGEX_Id63 ==
  << LazyAny, Lit(<<"/">>), GroupStar("resource_type", AzRange),
     Lit(<<"/">>), GroupRange("resource_id", IdChars, 1, 63),
     Lit(<<"/", "_", "h", "i", "s", "t", "o", "r", "y", "/">>),
     GroupRange("version_id", IdChars, 1, 64), End >>

_VREAD_PATH_REGEX ==
  << LazyAny, Lit(<<"/">>), GroupStar("resource_type", AzRange),
     Lit(<<"/">>), GroupRange("resource_id", IdChars, 1, 64),
     Lit(<<"/", "_", "h", "i", "s", "t", "o", "r", "y", "/">>),
     GroupRange("version_id", IdChars, 1, 64), End >>

\* mutant: the pattern without its "$"
_CREATE_PATH_REGEX_NoEnd ==
  << LazyAny, Lit(<<"/">>), GroupStar("resource_type", AzRange) >>

\* mutant: the pattern of an instance-level interaction pasted in
_CREATE_PATH_REGEX_WithId ==
  << LazyAny, Lit(<<"/">>), GroupStar("resource_type", AzRange),
     Lit(<<"/">>), GroupRange("resource_id", IdChars, 1, 64), End >>

_CREATE_PATH_REGEX ==
  << LazyAny, Lit(<<"/">>), GroupStar("resource_type", AzRange), End >>

_SEARCH_TYPE_GET_PATH_REGEX ==
  << LazyAny, Lit(<<"/">>), GroupStar("resource_type", AzRange), End >>

_SEARCH_TYPE_POST_PATH_REGEX ==
  << LazyAny, Lit(<<"/">>), GroupStar("resource_type", AzRange),
     Lit(<<"/", "_", "s", "e", "a", "r", "c", "h">>), End >>

_UPDATE_PATH_REGEX ==
  << LazyAny, Lit(<<"/">>), GroupStar("resource_type", AzRange),
     Lit(<<"/">>), GroupRange("resource_id", IdChars, 1, 64), End >>

_PATCH_PATH_REGEX ==
  << LazyAny, Lit(<<"/">>), GroupStar("resource_type", AzRange),
     Lit(<<"/">>), GroupRange("resource_id", IdChars, 1, 64), End >>

_DELETE_PATH_REGEX ==
  << LazyAny, Lit(<<"/">>), GroupStar("resource_type", AzRange),
     Lit(<<"/">>), GroupRange("resource_id", IdChars, 1, 64), End >>

(***************************************************************************)
(* is_resource_type (fhir_specification.utils): the names of the resource  *)
(* types of the FHIR specification, which are UpperCamelCase words.        *)
(***************************************************************************)
KnownResourceTypes == { Str(<<"P", "a", "t", "i", "e", "n", "t">>) }

is_resource_type(name) == name \in KnownResourceTypes

(***************************************************************************)
(* InteractionInfo                                                         *)
(***************************************************************************)
InteractionInfo(rt, it, rid, vid) ==
  [resource_type |-> rt, interaction_type |-> it, resource_id |-> rid, version_id |-> vid]

empty == InteractionInfo(None, None, None, None)

\* mutant: the resource type is not checked against is_resource_type
from_match_NoOracle(match, interaction_type) ==
  IF match = None THEN None
  ELSE LET match_data == Get(match)
           resource_type == GroupGet(match_data, "resource_type")
       IN IF resource_type = None \/ Get(resource_type) = <<>>
          THEN None
          ELSE Some(InteractionInfo(resource_type,
                                    Some(interaction_type),
                                    GroupGet(match_data, "resource_id"),
                                    GroupGet(match_data, "version_id")))

\* mutant: a partially populated result instead of declining
from_match_Partial(match, interaction_type) ==
  IF match = None THEN None
  ELSE LET match_data == Get(match)
           resource_type == GroupGet(match_data, "resource_type")
       IN IF \/ resource_type = None
             \/ Get(resource_type) = <<>>
             \/ ~ is_resource_type(Get(resource_type))
          THEN Some(InteractionInfo(None, Some(interaction_type), None, None))
          ELSE Some(InteractionInfo(resource_type,
                                    Some(interaction_type),
                                    GroupGet(match_data, "resource_id"),
                                    GroupGet(match_data, "version_id")))

from_match(match, interaction_type) ==
  IF match = None THEN None
  ELSE LET match_data == Get(match)
           resource_type == GroupGet(match_data, "resource_type")
       IN IF \/ resource_type = None
             \/ Get(resource_type) = <<>>
             \/ ~ is_resource_type(Get(resource_type))
          THEN None
          ELSE Some(InteractionInfo(resource_type,
                                    Some(interaction_type),
                                    GroupGet(match_data, "resource_id"),
                                    GroupGet(match_data, "version_id")))

(***************************************************************************)
(* The path matchers.  A matcher returns Some(InteractionInfo), None when  *)
(* it declines, or Some(AssertionError) when its assertion fails.          *)
(***************************************************************************)
AssertionError == [exception |-> "Method should be POST"]

MetadataPathMatcher(method, path) ==
  IF method # "GET" THEN None
  ELSE IF ReMatch(_METADATA_PATH_REGEX, path) = None THEN None
  ELSE Some(InteractionInfo(None, Some("capabilities"), None, None))

\* mutant: the result built from the match without from_match
CreatePathMatcher_Unvalidated(method, path) ==
  IF method # "POST" THEN None
  ELSE LET m == ReMatch(_CREATE_PATH_REGEX, path)
       IN IF m = None THEN None
          ELSE Some(InteractionInfo(GroupGet(Get(m), "resource_type"),
                                    Some("create"), None, None))

CreatePathMatcher(method, path) ==
  IF method # "POST" THEN None
  ELSE from_match(ReMatch(_CREATE_PATH_REGEX, path), "create")

\* mutant: the method compared without regard to case
ReadPathMatcher_AnyCase(method, path) ==
  IF method \notin {"GET", "get"} THEN None
  ELSE from_match(ReMatch(_READ_PATH_REGEX, path), "read")

ReadPathMatcher(method, path) ==
  IF method # "GET" THEN None
  ELSE from_match(ReMatch(_READ_PATH_REGEX, path), "read")

VReadPathMatcher(method, path) ==
  IF method # "GET" THEN None
  ELSE from_match(ReMatch(_VREAD_PATH_REGEX, path), "vread")

SearchPathMatcher(method, path) ==
  IF method \notin {"GET", "POST"} THEN None
  ELSE IF method = "GET"
       THEN from_match(ReMatch(_SEARCH_TYPE_GET_PATH_REGEX, path), "search-type")
  ELSE IF method # "POST" THEN Some(AssertionError)
  ELSE from_match(ReMatch(_SEARCH_TYPE_POST_PATH_REGEX, path), "search-type")

\* mutant: the update matcher answers PATCH requests as well
UpdatePathMatcher_AnyWrite(method, path) ==
  IF method \notin {"PUT", "PATCH"} THEN None
  ELSE from_match(ReMatch(_UPDATE_PATH_REGEX, path), "update")

UpdatePathMatcher(method, path) ==
  IF method # "PUT" THEN None
  ELSE from_match(ReMatch(_UPDATE_PATH_REGEX, path), "update")

PatchPathMatcher(method, path) ==
  IF method # "PATCH" THEN None
  ELSE from_match(ReMatch(_PATCH_PATH_REGEX, path), "patch")

DeletePathMatcher(method, path) ==
  IF method # "DELETE" THEN None
  ELSE from_match(ReMatch(_DELETE_PATH_REGEX, path), "delete")

\* matcher.match(method, path) for the matcher class of that name
match(matcher, method, path) ==
  CASE matcher = "MetadataPathMatcher" -> MetadataPathMatcher(method, path)
    [] matcher = "ReadPathMatcher" -> ReadPathMatcher(method, path)
    [] matcher = "VReadPathMatcher" -> VReadPathMatcher(method, path)
    [] matcher = "CreatePathMatcher" -> CreatePathMatcher(method, path)
    [] matcher = "SearchPathMatcher" -> SearchPathMatcher(method, path)
    [] matcher = "UpdatePathMatcher" -> UpdatePathMatcher(method, path)
    [] matcher = "PatchPathMatcher" -> PatchPathMatcher(method, path)
    [] matcher = "DeletePathMatcher" -> DeletePathMatcher(method, path)

(***************************************************************************)
(* parse_fhir_request                                                      *)
(***************************************************************************)
\* mutant: ReadPathMatcher tried before MetadataPathMatcher
matchers_ReadFirst ==
  << "ReadPathMatcher", "MetadataPathMatcher", "VReadPathMatcher",
     "CreatePathMatcher", "SearchPathMatcher", "UpdatePathMatcher",
     "PatchPathMatcher", "DeletePathMatcher" >>

\* mutant: SearchPathMatcher tried before ReadPathMatcher
matchers_SearchFirst ==
  << "MetadataPathMatcher", "SearchPathMatcher", "ReadPathMatcher",
     "VReadPathMatcher", "CreatePathMatcher", "UpdatePathMatcher",
     "PatchPathMatcher", "DeletePathMatcher" >>

matchers ==
  << "MetadataPathMatcher", "ReadPathMatcher", "VReadPathMatcher",
     "CreatePathMatcher", "SearchPathMatcher", "UpdatePathMatcher",
     "PatchPathMatcher", "DeletePathMatcher" >>

\* the for loop over the matchers from index i on; inv is the sequence of
\* the matchers invoked so far
RECURSIVE MatcherLoop(_, _, _)
MatcherLoop(req, i, inv) ==
  IF i > Len(matchers)
  THEN [ret |-> Some(empty), invoked |-> inv, raised |-> FALSE]
  ELSE LET m == match(matchers[i], req.method, req.path)
           inv2 == Append(inv, matchers[i])
       IN IF m = Some(AssertionError)
          THEN [ret |-> None, invoked |-> inv2, raised |-> TRUE]
          ELSE IF m # None
          THEN [ret |-> m, invoked |-> inv2, raised |-> FALSE]
          ELSE MatcherLoop(req, i + 1, inv2)

\* request is None or Some([method, path]); ret is Some(the InteractionInfo
\* returned), or None when the call raised
parse_fhir_request(request) ==
  IF request = None
  THEN [ret |-> Some(empty), invoked |-> <<>>, raised |-> FALSE]
  ELSE MatcherLoop(Get(request), 1, <<>>)

(***************************************************************************)
(* The requests of the model: a path is "/" + segment, repeated.           *)
(***************************************************************************)
MaxSegs == 3

Methods == {"GET", "POST", "PUT", "PATCH", "DELETE", "HEAD", "get"}

SegChars ==
  [ Patient   |-> Str(<<"P", "a", "t", "i", "e", "n", "t">>),
    Fake      |-> Str(<<"F", "a", "k", "e">>),
    Num       |-> Str(<<"1", ".", "-">>),
    History   |-> Str(<<"_", "h", "i", "s", "t", "o", "r", "y">>),
    Search    |-> Str(<<"_", "s", "e", "a", "r", "c", "h">>),
    Metadata  |-> Str(<<"m", "e", "t", "a", "d", "a", "t", "a">>),
    Empty     |-> <<>>,
    Tilde     |-> Str(<<"~">>),
    Long64    |-> Repeat("a", 64) ]

Segments == DOMAIN SegChars

RECURSIVE Path(_)
Path(ss) ==
  IF ss = <<>> THEN <<>>
  ELSE Str(<<"/">>) \o SegChars[Head(ss)] \o Path(Tail(ss))

VARIABLES segs, method, request, outcome, pc

vars == <<segs, method, request, outcome, pc>>

NoOutcome == [ret |-> None, invoked |-> <<>>, raised |-> FALSE]

Init ==
  /\ segs = <<>>
  /\ method = ""
  /\ request = None
  /\ outcome = NoOutcome
  /\ pc = "build"

\* the number of segments of a path, the version marker "_history" that
\* directly follows an id not counted
Weight(ss) ==
  Len(ss) - Cardinality({i \in 1..(Len(ss) - 1) :
                           ss[i] \in {"Num", "Long64"} /\ ss[i + 1] = "History"})

\* the client extends the URL path by one segment
\* (a segment of the maximal id length is used once, in the place of a
\* resource id or of a version id)
AppendSegment(sg) ==
  /\ pc = "build"
  /\ Weight(Append(segs, sg)) <= MaxSegs
  /\ sg = "Long64" =>
       /\ Len(segs) >= 1
       /\ segs[Len(segs)] \in {"Patient", "History"}
       /\ \A i \in 1..Len(segs) : segs[i] # "Long64"
  /\ segs' = Append(segs, sg)
  /\ UNCHANGED <<method, request, outcome, pc>>

\* parse_fhir_request(request) for a request with method m and the path built
Parse(m) ==
  /\ pc = "build"
  /\ method' = m
  /\ request' = Some([method |-> m, path |-> Path(segs)])
  /\ outcome' = parse_fhir_request(request')
  /\ pc' = "done"
  /\ UNCHANGED segs

\* parse_fhir_request(None)
ParseAbsent ==
  /\ pc = "build"
  /\ request' = None
  /\ outcome' = parse_fhir_request(request')
  /\ pc' = "done"
  /\ UNCHANGED <<segs, method>>

Next ==
  \/ \E sg \in Segments : AppendSegment(sg)
  \/ \E m \in Methods : Parse(m)
  \/ ParseAbsent

Spec == Init /\ [][Next]_vars

\* the InteractionInfo returned by the call
result == Get(outcome.ret)

Returned == pc = "done" /\ outcome.ret # None


Called == Returned /\ request # None

\* request.url.path
path == Get(request).path

Seg(n) == SegChars[n]

Slash == Str(<<"/">>)

MetadataLit == Str(<<"/", "m", "e", "t", "a", "d", "a", "t", "a">>)

HistoryLit == Str(<<"/", "_", "h", "i", "s", "t", "o", "r", "y">>)

SearchLit == Str(<<"/", "_", "s", "e", "a", "r", "c", "h">>)

Contains(s, lit) == \E i \in 1..(Len(s) - Len(lit) + 1) : HasLit(s, i, lit)

Letters == (65..90) \cup (97..122)

\* 1 to 64 characters drawn from [A-Za-z0-9.-]
ValidId(x) ==
  /\ Len(x) \in 1..64
  /\ \A i \in 1..Len(x) : x[i] \in Letters \cup (48..57) \cup {45, 46}

\* the ids of the model
Ids == {x \in {SegChars[n] : n \in Segments} : ValidId(x)}

Capabilities == InteractionInfo(None, Some("capabilities"), None, None)

(***************************************************************************)
(* C1                                                                      *)
(***************************************************************************)
\* the requests of the claim with the result it states, as <<method, path, result>>
C1_Table ==
  UNION { UNION { {
      <<"GET", Slash \o T \o Slash \o I,
        InteractionInfo(Some(T), Some("read"), Some(I), None)>>,
      <<"PUT", Slash \o T \o Slash \o I,
        InteractionInfo(Some(T), Some("update"), Some(I), None)>>,
      <<"PATCH", Slash \o T \o Slash \o I,
        InteractionInfo(Some(T), Some("patch"), Some(I), None)>>,
      <<"DELETE", Slash \o T \o Slash \o I,
        InteractionInfo(Some(T), Some("delete"), Some(I), None)>> }
    \cup { <<"GET", Slash \o T \o Slash \o I \o HistoryLit \o Slash \o V,
             InteractionInfo(Some(T), Some("vread"), Some(I), Some(V))>> : V \in Ids }
    : I \in Ids } : T \in KnownResourceTypes }

\* C1 as stated: for every known resource type T and all ids I, V of 1 to 64
\* characters of [A-Za-z0-9.-], GET /T/I is read, GET /T/I/_history/V is
\* vread, PUT /T/I is update, PATCH /T/I is patch and DELETE /T/I is delete,
\* with T, I (and V) in the result.
C1_AsStated ==
  Called =>
    \A c \in C1_Table : (method = c[1] /\ path = c[2]) => result = c[3]

\* C1 (amended): the same, for the two GET forms provided the path does not
\* contain "/metadata" (an id that begins with "metadata" makes the request
\* a capabilities request).
C1_InstanceInteractions ==
  Called =>
    \A c \in C1_Table :
      ( /\ method = c[1]
        /\ path = c[2]
        /\ (method = "GET" => ~ Contains(path, MetadataLit)) )
      => result = c[3]

C1_Witness ==
  /\ Called
  /\ method = "GET"
  /\ segs = <<"Patient", "Long64", "History", "Num">>
  /\ result = InteractionInfo(Some(Seg("Patient")), Some("vread"),
                              Some(Seg("Long64")), Some(Seg("Num")))

(***************************************************************************)
(* C2                                                                      *)
(***************************************************************************)
C2_Table ==
  UNION { {
      <<"POST", Slash \o T, InteractionInfo(Some(T), Some("create"), None, None)>>,
      <<"GET", Slash \o T, InteractionInfo(Some(T), Some("search-type"), None, None)>>,
      <<"POST", Slash \o T \o SearchLit,
        InteractionInfo(Some(T), Some("search-type"), None, None)>> }
    : T \in KnownResourceTypes }

\* C2: for every known resource type T, POST /T is create, GET /T and
\* POST /T/_search are search-type, each with resource_type T and no ids.
C2_TypeInteractions ==
  Called =>
    \A c \in C2_Table : (method = c[1] /\ path = c[2]) => result = c[3]

C2_Witness ==
  /\ Called
  /\ method = "POST"
  /\ segs = <<"Patient", "Search">>
  /\ result = InteractionInfo(Some(Seg("Patient")), Some("search-type"), None, None)

(***************************************************************************)
(* C3                                                                      *)
(***************************************************************************)
\* C3: a GET of a path that contains "/metadata" is capabilities with no
\* resource type and no ids, whatever a later matcher returns for the path;
\* no request with another method is capabilities.
C3_MetadataFirst ==
  Called =>
    /\ (method = "GET" /\ Contains(path, MetadataLit)) => result = Capabilities
    /\ method # "GET" => result.interaction_type # Some("capabilities")

C3_Witness ==
  /\ Called
  /\ method = "GET"
  /\ segs = <<"Patient", "Metadata">>
  /\ ReadPathMatcher(method, path) # None
  /\ result = Capabilities

(***************************************************************************)
(* C4                                                                      *)
(***************************************************************************)
IsLetters(x) == \A i \in 1..Len(x) : x[i] \in Letters

\* the segments in the {type} position of the path shapes that the tail of
\* the path matches for the method m: .../{type}/{id} (GET, PUT, PATCH,
\* DELETE), .../{type}/{id}/_history/{vid} (GET), .../{type} (GET, POST),
\* .../{type}/_search (POST); a type is a word of ASCII letters
TypePositions(m, ss) ==
  LET n == Len(ss)
      sg(i) == SegChars[ss[i]]
      instance == IF m \in {"GET", "PUT", "PATCH", "DELETE"} /\ n >= 2 /\ ValidId(sg(n))
                  THEN {sg(n - 1)} ELSE {}
      version == IF /\ m = "GET" /\ n >= 4 /\ ValidId(sg(n)) /\ ss[n - 1] = "History"
                    /\ ValidId(sg(n - 2))
                 THEN {sg(n - 3)} ELSE {}
      type == IF m \in {"GET", "POST"} /\ n >= 1 THEN {sg(n)} ELSE {}
      search == IF m = "POST" /\ n >= 2 /\ ss[n] = "Search" THEN {sg(n - 1)} ELSE {}
  IN {t \in instance \cup version \cup type \cup search : IsLetters(t)}

\* C4 as stated: when the tail of the path matches the path shape of an
\* interaction for the method and the segment in the type position is not a
\* known resource type, the result is the empty result.
C4_AsStated ==
  Called =>
    ((\E t \in TypePositions(method, segs) : ~ is_resource_type(t))
       => result = empty)

\* C4 (amended): when the tail of the path matches a path shape for the
\* method, the segment in the type position is not a known resource type in
\* any of the shapes it matches, and (for GET) the path does not contain
\* "/metadata", the result is the empty result.
C4_UnknownTypeEmpty ==
  Called =>
    LET types == TypePositions(method, segs)
    IN ( /\ types # {}
         /\ \A t \in types : ~ is_resource_type(t)
         /\ (method = "GET" => ~ Contains(path, MetadataLit)) )
       => result = empty

C4_Witness ==
  /\ Called
  /\ method = "GET"
  /\ segs = <<"Fake", "Num">>
  /\ TypePositions(method, segs) = {Seg("Fake")}
  /\ result = empty

(***************************************************************************)
(* C5                                                                      *)
(***************************************************************************)
\* the call for the path without its first j segments
Unmounted(j) ==
  parse_fhir_request(Some([method |-> method,
                           path |-> Path(SubSeq(segs, j + 1, Len(segs)))]))

\* C5 as stated: when the path p yields a result r that is not empty and not
\* capabilities, every sequence of prefix segments followed by p yields r.
C5_AsStated ==
  Called =>
    \A j \in 1..(Len(segs) - 1) :
      LET r == Get(Unmounted(j).ret)
      IN (r # empty /\ r.interaction_type # Some("capabilities")) => result = r

\* C5 (amended): the same, provided that no matcher tried before the one
\* that produced r accepts the prefixed path.
C5_MountInvariance ==
  Called =>
    \A j \in 1..(Len(segs) - 1) :
      LET out == Unmounted(j)
          r == Get(out.ret)
      IN ( /\ r # empty
           /\ r.interaction_type # Some("capabilities")
           /\ \A i \in 1..(Len(out.invoked) - 1) :
                match(out.invoked[i], method, path) = None )
         => result = r

C5_Witness ==
  /\ Called
  /\ method = "GET"
  /\ segs = <<"Fake", "Patient", "Num">>
  /\ Get(Unmounted(1).ret) = InteractionInfo(Some(Seg("Patient")), Some("read"),
                                             Some(Seg("Num")), None)
  /\ result = Get(Unmounted(1).ret)

(***************************************************************************)
(* C6                                                                      *)
(***************************************************************************)
NoFields(r) ==
  r.resource_type = None /\ r.resource_id = None /\ r.version_id = None

\* C6 as stated: interaction_type is None if and only if resource_type,
\* resource_id and version_id are all None.
C6_AsStated ==
  Returned => (result.interaction_type = None <=> NoFields(result))

\* C6 (amended): resource_type, resource_id and version_id are all None if
\* and only if interaction_type is None or capabilities.
C6_EmptyOrCapabilities ==
  Returned =>
    (NoFields(result) <=> result.interaction_type \in {None, Some("capabilities")})

C6_Witness ==
  /\ Called
  /\ method = "GET"
  /\ segs = <<"Metadata">>
  /\ result.interaction_type = Some("capabilities")
  /\ NoFields(result)

(***************************************************************************)
(* C7                                                                      *)
(***************************************************************************)
\* C7: a resource_type in a result is a string that is_resource_type
\* accepts, and is not empty.
C7_ValidatedType ==
  Returned =>
    (result.resource_type # None =>
       /\ is_resource_type(Get(result.resource_type))
       /\ Get(result.resource_type) # <<>>)

\* POST /Patient/_search: the pattern of create captures "_search", which
\* [A-z]* admits, and the result names Patient
C7_Witness ==
  /\ Called
  /\ method = "POST"
  /\ segs = <<"Patient", "Search">>
  /\ GroupGet(Get(ReMatch(_CREATE_PATH_REGEX, path)), "resource_type")
       = Some(Seg("Search"))
  /\ result.resource_type = Some(Seg("Patient"))

(***************************************************************************)
(* C8                                                                      *)
(***************************************************************************)
C8_Order ==
  << "MetadataPathMatcher", "ReadPathMatcher", "VReadPathMatcher",
     "CreatePathMatcher", "SearchPathMatcher", "UpdatePathMatcher",
     "PatchPathMatcher", "DeletePathMatcher" >>

\* the places in the order of the matchers that do not decline the request
C8_Accepting == {i \in 1..Len(C8_Order) : match(C8_Order[i], method, path) # None}

\* C8: the call never raises; for an absent request it returns the empty
\* result and invokes no matcher; otherwise it returns the result of the
\* first matcher, in the order Metadata, Read, VRead, Create, Search, Update,
\* Patch, Delete, that does not decline, and the empty result exactly when
\* all eight decline.
C8_FirstMatch ==
  pc = "done" =>
    /\ ~ outcome.raised
    /\ outcome.ret # None
    /\ request = None => (result = empty /\ outcome.invoked = <<>>)
    /\ request # None =>
         LET acc == C8_Accepting
         IN /\ (result = empty <=> acc = {})
            /\ acc = {} => outcome.invoked = C8_Order
            /\ acc # {} =>
                 LET first == Min(acc)
                 IN /\ Some(result) = match(C8_Order[first], method, path)
                    /\ outcome.invoked = SubSeq(C8_Order, 1, first)

\* GET /Patient/Patient: both ReadPathMatcher and SearchPathMatcher accept
C8_Witness ==
  /\ Called
  /\ method = "GET"
  /\ segs = <<"Patient", "Patient">>
  /\ SearchPathMatcher(method, path) # None
  /\ result.interaction_type = Some("read")

(***************************************************************************)
(* C9                                                                      *)
(***************************************************************************)
\* C9: a request whose method is not exactly GET, POST, PUT, PATCH or
\* DELETE yields the empty result, whatever its path.
C9_OtherMethods ==
  Called =>
    (method \notin {"GET", "POST", "PUT", "PATCH", "DELETE"} => result = empty)

C9_Witness ==
  /\ Called
  /\ method = "get"
  /\ segs = <<"Patient", "Num">>
  /\ result = empty

(***************************************************************************)
(* C10                                                                     *)
(***************************************************************************)
\* C10: resource_id is set exactly for read, vread, update, patch and
\* delete; version_id exactly for vread; resource_type exactly for create,
\* read, vread, update, patch, delete and search-type.
C10_FieldsByInteraction ==
  Returned =>
    /\ result.resource_id # None <=>
         result.interaction_type \in
           {Some("read"), Some("vread"), Some("update"), Some("patch"), Some("delete")}
    /\ result.version_id # None <=> result.interaction_type = Some("vread")
    /\ result.resource_type # None <=>
         result.interaction_type \in
           {Some("create"), Some("read"), Some("vread"), Some("update"),
            Some("patch"), Some("delete"), Some("search-type")}

C10_Witness ==
  /\ Called
  /\ method = "GET"
  /\ segs = <<"Patient", "Num", "History", "Num">>
  /\ result.interaction_type = Some("vread")
  /\ result.version_id = Some(Seg("Num"))

(***************************************************************************)
(* C11                                                                     *)
(***************************************************************************)
C11_Seven ==
  {"ReadPathMatcher", "VReadPathMatcher", "CreatePathMatcher",
   "SearchPathMatcher", "UpdatePathMatcher", "PatchPathMatcher",
   "DeletePathMatcher"}

\* what each of the eight matchers answers to the request
C11_Answers ==
  [m \in C11_Seven \cup {"MetadataPathMatcher"} |-> match(m, method, path)]

\* the orders in which the matchers of S can be tried.  A matcher that
\* declines leaves the result of the loop unchanged wherever it stands in
\* the list, so an order of the seven is represented by the order in which
\* it tries the matchers that accept.
C11_Orders(S) ==
  {o \in [1..Cardinality(S) -> S] :
     \A i, j \in 1..Cardinality(S) : o[i] = o[j] => i = j}

\* the order o tries neither ReadPathMatcher nor VReadPathMatcher after
\* SearchPathMatcher
C11_ReadsBeforeSearch(o) ==
  \A i, j \in DOMAIN o :
    (o[i] = "SearchPathMatcher" /\ o[j] \in {"ReadPathMatcher", "VReadPathMatcher"})
      => j < i

\* the loop of parse_fhir_request over MetadataPathMatcher followed by the
\* matchers of o in that order, given the matchers' answers
C11_ParseIn(o, ans) ==
  IF ans["MetadataPathMatcher"] # None THEN ans["MetadataPathMatcher"]
  ELSE LET hits == {i \in DOMAIN o : ans[o[i]] # None}
       IN IF hits = {} THEN Some(empty) ELSE ans[o[Min(hits)]]

\* C11 as stated: at most one of the seven matchers accepts, and every
\* order of the seven after MetadataPathMatcher gives the same result
C11_AsStated ==
  Called =>
    LET ans == C11_Answers
        acc == {m \in C11_Seven : ans[m] # None}
    IN /\ Cardinality(acc) <= 1
       /\ \A o \in C11_Orders(acc) : C11_ParseIn(o, ans) = Some(result)

\* C11: at most one of the seven matchers Read, VRead, Create, Search,
\* Update, Patch, Delete accepts a request, except that on a GET whose last
\* path segment is itself a known resource type SearchPathMatcher accepts
\* together with ReadPathMatcher or with VReadPathMatcher (never both, and
\* no third); so every order of the seven after MetadataPathMatcher that
\* tries Read and VRead before Search gives the result of
\* parse_fhir_request.
C11_OrderUpToSearch ==
  Called =>
    LET ans == C11_Answers
        acc == {m \in C11_Seven : ans[m] # None}
    IN /\ \/ Cardinality(acc) <= 1
          \/ /\ method = "GET"
             /\ acc \in {{"ReadPathMatcher", "SearchPathMatcher"},
                          {"VReadPathMatcher", "SearchPathMatcher"}}
             /\ is_resource_type(Seg(segs[Len(segs)]))
       /\ \A o \in C11_Orders(acc) :
            C11_ReadsBeforeSearch(o) => C11_ParseIn(o, ans) = Some(result)

\* GET /Patient/1.-/_history/Patient: VReadPathMatcher and SearchPathMatcher
\* both accept, and the result is the vread
C11_Witness ==
  /\ Called
  /\ method = "GET"
  /\ segs = <<"Patient", "Num", "History", "Patient">>
  /\ VReadPathMatcher(method, path) # None
  /\ SearchPathMatcher(method, path) # None
  /\ VReadPathMatcher(method, path) # SearchPathMatcher(method, path)
  /\ result.interaction_type = Some("vread")

====
